---- MODULE Spec2Model ----
(***************************************************************************)
(* A model of bot.py: the image upload pipeline of the Telegram bot.       *)
(*                                                                         *)
(* The bot is a single asyncio process.  A handler runs without            *)
(* interruption from one `await` to the next, so every action below is one *)
(* such block of a handler: what it reads and writes of the shared state   *)
(* (the key pool, pending_key_requests, active_listeners, last_post)       *)
(* happens in one step.  upload_to_imgbb and the Telegraph calls are       *)
(* blocking calls (requests.post) and do not yield.                        *)
(***************************************************************************)
EXTENDS Integers, Sequences, FiniteSets, Bags, TLC

(***************************************************************************)
(* Bounds of the model.                                                    *)
(***************************************************************************)
MaxItems == 2      \* longest archive (number of image members)
MaxFails == 2      \* key rejections the image host answers to one request
MaxKeys == 3       \* longest list of keys the requesters let the pool grow to
MaxSuspended == 1  \* message handlers suspended at an await at the same time

(***************************************************************************)
(* Program constants.                                                      *)
(***************************************************************************)
retries == 3             \* upload_to_imgbb(..., retries: int = 3, ...)
MinKeyLen == 10          \* len(response_text) >= 10
PromoteAfter == 3        \* consecutive_successes >= 3

None == "None"

(***************************************************************************)
(* Strings whose characters matter (member names, error messages) are      *)
(* sequences of code points.                                               *)
(***************************************************************************)
\* str.lower() on one character (ASCII)
LowerChar(c) == IF c >= 65 /\ c <= 90 THEN c + 32 ELSE c

\* str.lower()
Lower(s) == [i \in 1..Len(s) |-> LowerChar(s[i])]

\* Python's str comparison a < b: lexicographic on code points
RECURSIVE StrLess(_, _)
StrLess(a, b) ==
    IF b = <<>> THEN FALSE
    ELSE IF a = <<>> THEN TRUE
    ELSE IF Head(a) # Head(b) THEN Head(a) < Head(b)
    ELSE StrLess(Tail(a), Tail(b))

\* `w in s` for strings: w is a substring of s
Contains(s, w) ==
    \E i \in 1..(Len(s) - Len(w) + 1) : SubSeq(s, i, i + Len(w) - 1) = w

(***************************************************************************)
(* image_sources.sort(key=lambda x: x[0].lower()): a stable sort of the    *)
(* (name, payload) pairs on the lower-cased name.                          *)
(***************************************************************************)
SortKeyRaw(item) == item.name

SortKey(item) == Lower(item.name)

RECURSIVE InsertSorted(_, _)
InsertSorted(sorted, item) ==
    IF sorted = <<>> THEN <<item>>
    ELSE IF StrLess(SortKey(item), SortKey(sorted[Len(sorted)]))
         THEN InsertSorted(SubSeq(sorted, 1, Len(sorted) - 1), item)
                  \o <<sorted[Len(sorted)]>>
         ELSE sorted \o <<item>>

RECURSIVE SortSources(_)
SortSources(srcs) ==
    IF srcs = <<>> THEN <<>>
    ELSE InsertSorted(SortSources(SubSeq(srcs, 1, Len(srcs) - 1)), srcs[Len(srcs)])

(***************************************************************************)
(* upload_to_imgbb.  What the network gives to one requests.post is an     *)
(* outcome: a response (status code, whether the body parses as JSON, the  *)
(* error message of the body, the success flag and the url of the body),   *)
(* a ReadTimeout, or another exception.  An exchange is the sequence of    *)
(* outcomes the successive attempts of one call would get.                 *)
(***************************************************************************)
Response(status, json, message, success, hasurl, url) ==
    [kind |-> "response", status |-> status, json |-> json, message |-> message,
     success |-> success, hasurl |-> hasurl, url |-> url]

ReadTimeout ==
    [kind |-> "ReadTimeout", status |-> 0, json |-> FALSE, message |-> <<>>,
     success |-> FALSE, hasurl |-> FALSE, url |-> <<>>]

OtherException ==
    [kind |-> "Exception", status |-> 0, json |-> FALSE, message |-> <<>>,
     success |-> FALSE, hasurl |-> FALSE, url |-> <<>>]

\* ["key", "invalid", "expired", "missing"]
Keywords ==
    { <<107, 101, 121>>,
      <<105, 110, 118, 97, 108, 105, 100>>,
      <<101, 120, 112, 105, 114, 101, 100>>,
      <<109, 105, 115, 115, 105, 110, 103>> }

\* any(word in error_message for word in [...]), error_message lower-cased
HasKeyword(message) == \E w \in Keywords : Contains(Lower(message), w)

UploadResult(success, key_valid, error, url, attempts) ==
    [success |-> success, key_valid |-> key_valid, error |-> error, url |-> url,
     attempts |-> attempts]

\* the except HTTPError branch, as if only a 400 carrying a keyword were a key failure
HTTPErrorResult_KeywordOnly(o, attempt) ==
    UploadResult(FALSE, TRUE, "HTTP Error", <<>>, attempt)

\* except requests.exceptions.HTTPError
HTTPErrorResult(o, attempt) ==
    IF o.status = 400
    THEN UploadResult(FALSE, FALSE, "HTTP Error", <<>>, attempt)
    ELSE UploadResult(FALSE, TRUE, "HTTP Error", <<>>, attempt)

\* the body of the try for one response r
OnResponse(o, attempt) ==
    IF o.status = 400 /\ o.json /\ HasKeyword(o.message)
    THEN UploadResult(FALSE, FALSE, "API key invalida o expirada", <<>>, attempt)
    ELSE IF o.status >= 400 /\ o.status < 600          \* r.raise_for_status()
    THEN HTTPErrorResult(o, attempt)
    ELSE IF ~o.json                                    \* r.json() raises
    THEN UploadResult(FALSE, TRUE, "Error subiendo imagen", <<>>, attempt)
    ELSE IF o.success /\ o.hasurl
    THEN UploadResult(TRUE, TRUE, "", o.url, attempt)
    ELSE UploadResult(FALSE, TRUE, "Error en upload", <<>>, attempt)

\* the loop, as if any exception led to the next attempt
RECURSIVE UploadLoop_RetryAll(_, _)
UploadLoop_RetryAll(exchange, attempt) ==
    IF attempt > retries
    THEN UploadResult(FALSE, TRUE, "Error desconocido", <<>>, retries)
    ELSE LET o == exchange[attempt] IN
         IF o.kind \in {"ReadTimeout", "Exception"}
         THEN IF attempt < retries /\ attempt < Len(exchange)
              THEN UploadLoop_RetryAll(exchange, attempt + 1)
              ELSE UploadResult(FALSE, TRUE, "Timeout agotado", <<>>, attempt)
         ELSE OnResponse(o, attempt)

\* for attempt in range(1, retries + 1)
RECURSIVE UploadLoop(_, _)
UploadLoop(exchange, attempt) ==
    IF attempt > retries
    THEN UploadResult(FALSE, TRUE, "Error desconocido", <<>>, retries)
    ELSE LET o == exchange[attempt] IN
         IF o.kind = "ReadTimeout"
         THEN IF attempt < retries
              THEN UploadLoop(exchange, attempt + 1)
              ELSE UploadResult(FALSE, TRUE, "Timeout agotado", <<>>, attempt)
         ELSE IF o.kind = "Exception"
         THEN UploadResult(FALSE, TRUE, "Error subiendo imagen", <<>>, attempt)
         ELSE OnResponse(o, attempt)

upload_to_imgbb(api_key, exchange) ==
    IF api_key = ""
    THEN UploadResult(FALSE, FALSE, "No API key provided", <<>>, 0)
    ELSE UploadLoop(exchange, 1)

(***************************************************************************)
(* The key pool: current_imgbb_keys (a list), current_key_index, valid_keys *)
(* and failed_keys.  The operators take and return the pool as a record,   *)
(* so that a block of a handler that makes several calls composes them.    *)
(***************************************************************************)
Pool(keys, index, valid, failed) ==
    [keys |-> keys, index |-> index, valid |-> valid, failed |-> failed]

\* initialize_imgbb_keys, for the comma-separated keys of IMGBB_API_KEY
initialize_imgbb_keys(keys) ==
    Pool(keys, 0, {keys[i] : i \in 1..Len(keys)}, {})

\* available_valid_keys = [key for key in current_imgbb_keys
\*                         if key in valid_keys and key not in failed_keys]
available_valid_keys(P) ==
    SelectSeq(P.keys, LAMBDA key : key \in P.valid /\ key \notin P.failed)

\* get_current_imgbb_key: the pool after the call (the index is reset when it
\* is past the end) ...
get_current_pool(P) ==
    IF P.keys = <<>> THEN P
    ELSE IF available_valid_keys(P) # <<>> THEN P
    ELSE IF P.index >= Len(P.keys) THEN [P EXCEPT !.index = 0]
    ELSE P

\* ... and the key it returns
get_current_imgbb_key(P) ==
    IF P.keys = <<>> THEN ""
    ELSE IF available_valid_keys(P) # <<>> THEN available_valid_keys(P)[1]
    ELSE get_current_pool(P).keys[get_current_pool(P).index + 1]

\* valid_keys.add(key) alone, the key left in failed_keys
mark_key_as_valid_KeepsFailed(key, P) == [P EXCEPT !.valid = P.valid \cup {key}]

mark_key_as_valid(key, P) ==
    [P EXCEPT !.valid = P.valid \cup {key}, !.failed = P.failed \ {key}]

\* failed_keys.add(key) alone, the key left in valid_keys
mark_key_as_failed_KeepsValid(key, P) == [P EXCEPT !.failed = P.failed \cup {key}]

mark_key_as_failed(key, P) ==
    [P EXCEPT !.failed = P.failed \cup {key}, !.valid = P.valid \ {key}]

\* current_imgbb_keys.append(new_key)
append_key(key, P) == [P EXCEPT !.keys = Append(P.keys, key)]

\* append alone, the new key left neither valid nor failed
add_key_unverified(key, P) == append_key(key, P)

\* current_imgbb_keys.append(new_key); mark_key_as_valid(new_key)
add_key(key, P) == mark_key_as_valid(key, append_key(key, P))

(***************************************************************************)
(* The world the bot runs in.                                              *)
(***************************************************************************)
Chats == {1, 2}          \* chat ids of the requesters
Jobs == {1, 2}           \* /ul requests being handled at the same time

K1 == "imgbbkey0001"
K2 == "imgbbkey0002"
K3 == "imgbbkey0003"

\* values IMGBB_API_KEY can hold at start, split at the commas
InitKeyLists == { <<>>, <<K1>>, <<K1, K2>> }

\* keys a requester may send
SuppliedKeys == {K3}

\* The image members an archive can hold: (name, payload).  The payload
\* decides whether the image decodes and what the image host answers to its
\* upload when it does not reject the key.
\*   "B", "a", "Ab": good images; "c": the host answers 500; "D": undecodable
Members ==
    { [name |-> <<66>>, payload |-> "jpeg"],
      [name |-> <<97>>, payload |-> "jpeg"],
      [name |-> <<65, 98>>, payload |-> "jpeg"],
      [name |-> <<99>>, payload |-> "toobig"],
      [name |-> <<68>>, payload |-> "corrupt"] }

\* the archives: the members in any order, none twice
Archives(maxlen) ==
    { a \in UNION { [1..n -> Members] : n \in 0..maxlen } :
        \A p, q \in DOMAIN a : p # q => a[p] # a[q] }

\* the archives of the requests that overlap in time, or follow one another:
\* one image; three good images out of order
SmallArchives ==
    { a \in Archives(3) :
        [i \in DOMAIN a |-> a[i].name] \in
            { << <<97>> >>, << <<66>>, <<97>>, <<65, 98>> >> } }

\* validar_y_reparar_imagen returns None (here FALSE) when the image does not decode
validar_y_reparar_imagen(payload) == payload # "corrupt"

\* the url the image host gives to an uploaded image
UrlOf(item) == <<117>> \o item.name

\* what the image host answers to the upload of an item with a key it accepts
HostExchange(item) ==
    IF item.payload = "jpeg"
    THEN << Response(200, TRUE, <<>>, TRUE, TRUE, UrlOf(item)) >>
    ELSE IF item.payload = "slow"
    THEN [attempt \in 1..retries |-> ReadTimeout]
    ELSE << Response(500, FALSE, <<>>, FALSE, FALSE, <<>>) >>

\* what it answers when it rejects the key: "Bad Key", or a 400 with "No data"
KeyRejections ==
    { << Response(400, TRUE, <<66, 97, 100, 32, 75, 101, 121>>, FALSE, FALSE, <<>>) >>,
      << Response(400, TRUE, <<78, 111, 32, 100, 97, 116, 97>>, FALSE, FALSE, <<>>) >> }

(***************************************************************************)
(* Text messages are sequences of words; a word is a string.               *)
(***************************************************************************)
Texts ==
    { <<"/cancel">>, <<"/CANCEL">>, <<"/addkey">>, <<"/addkey", "short">>,
      <<"hi">> }
    \cup { <<k>> : k \in SuppliedKeys }
    \cup { <<"/addkey", k>> : k \in SuppliedKeys }

\* the text of a message: its words joined by one space
RECURSIVE JoinWords(_)
JoinWords(words) ==
    IF Len(words) = 1 THEN words[1]
    ELSE words[1] \o " " \o JoinWords(Tail(words))

\* str.lower() on the texts of the model: only "/CANCEL" has upper-case letters
TextLower(text) == IF text = "/CANCEL" THEN "/cancel" ELSE text

(***************************************************************************)
(* State.                                                                  *)
(***************************************************************************)
VARIABLES
    current_imgbb_keys,    \* list of keys
    current_key_index,
    valid_keys,
    failed_keys,
    pending_key_requests,  \* dict chat_id -> saved state of a suspended job
    active_listeners,      \* dict chat_id -> {"event", "response"}
    last_post,             \* <<>> for the empty dict, else <<the post>>
    job,                   \* per /ul request in progress: its position and locals
    handlers,              \* bag of message handlers suspended at an await
    u_key, u_exchange, u_result    \* one call of upload_to_imgbb on its own

vars == << current_imgbb_keys, current_key_index, valid_keys, failed_keys,
           pending_key_requests, active_listeners, last_post, job, handlers,
           u_key, u_exchange, u_result >>

poolvars == << current_imgbb_keys, current_key_index, valid_keys, failed_keys >>
uvars == << u_key, u_exchange, u_result >>

ThePool == Pool(current_imgbb_keys, current_key_index, valid_keys, failed_keys)

SetPool(P) ==
    /\ current_imgbb_keys' = P.keys
    /\ current_key_index' = P.index
    /\ valid_keys' = P.valid
    /\ failed_keys' = P.failed

\* del d[k] when k in d
DictDel(d, k) == [x \in DOMAIN d \ {k} |-> d[x]]

\* d[k] = v
DictSet(d, k, v) == [x \in DOMAIN d \cup {k} |-> IF x = k THEN v ELSE d[x]]

(***************************************************************************)
(* The locals of one /ul request (cmd_ul -> handle_container ->            *)
(* process_and_upload_images or resume_after_key_update ->                 *)
(* request_new_key), and where it is suspended (pc).                       *)
(*   log, ended, img_urls, created, errors_sent, progress, posted and      *)
(*   final_url record what the request did; they are not read by the       *)
(*   program.                                                              *)
(***************************************************************************)
IdleJob(gen) ==
    [pc |-> "idle", chat_id |-> 0, image_sources |-> <<>>, idx |-> 0,
     links |-> <<>>, errors |-> <<>>, current_key |-> "",
     consecutive_successes |-> 0,
     gen |-> gen,            \* the asyncio.Event it created last
     evset |-> FALSE,        \* the Event it waits on is set
     resumed |-> FALSE,      \* it runs resume_after_key_update
     fellback |-> FALSE,     \* no key was valid and not failed when it took its key
     progress |-> <<>>,      \* the progress texts it sent
     posted |-> <<>>,        \* the Telegraph calls it made: the call and its content
     final_url |-> <<>>,     \* <<the final_url it reported>>
     log |-> <<>>, ended |-> "", img_urls |-> <<>>, created |-> FALSE,
     edited |-> FALSE, errors_sent |-> FALSE]

LogUpload(i, key, res, wasfailed) ==
    [kind |-> "upload", i |-> i, key |-> key, res |-> res, failed |-> wasfailed,
     cursor |-> 0]
LogSuspend(i, cursor) ==
    [kind |-> "suspend", i |-> i, key |-> "", res |-> "", failed |-> FALSE,
     cursor |-> cursor]
LogNewKey(i, key) ==
    [kind |-> "newkey", i |-> i, key |-> key, res |-> "", failed |-> FALSE,
     cursor |-> 0]

Link(item, url) == [name |-> item.name, url |-> url]
ItemError(item, error) == [name |-> item.name, error |-> error]

\* what a block of a request leaves behind: its locals and the shared state
Config(L, P, pending, listeners) ==
    [L |-> L, P |-> P, pending |-> pending, listeners |-> listeners]

\* handle_container, from the return of the upload function to its next await
\* (lines 635-645): links is never None; without urls it ends
AfterReturn(L, ended) ==
    LET img_urls == [i \in 1..Len(L.links) |-> L.links[i].url] IN
    [L EXCEPT !.ended = ended, !.img_urls = img_urls,
              !.pc = IF img_urls = <<>> THEN "done" ELSE "publish"]

\* the images that do not decode, as if they were passed over without an error
RECURSIVE SkipUndecodable_Silent(_)
SkipUndecodable_Silent(L) ==
    IF L.idx < Len(L.image_sources)
       /\ ~validar_y_reparar_imagen(L.image_sources[L.idx + 1].payload)
    THEN SkipUndecodable_Silent([L EXCEPT !.idx = L.idx + 1])
    ELSE L

\* the iterations of the while loop that end at `continue` without an await:
\* the images that do not decode
RECURSIVE SkipUndecodable(_)
SkipUndecodable(L) ==
    IF L.idx < Len(L.image_sources)
       /\ ~validar_y_reparar_imagen(L.image_sources[L.idx + 1].payload)
    THEN SkipUndecodable(
           [L EXCEPT !.idx = L.idx + 1,
                     !.errors = Append(L.errors,
                                  ItemError(L.image_sources[L.idx + 1], "No pude procesar"))])
    ELSE L

\* "current_index": idx - 1, with the index left past the failing image
PendingState_NoRewind(L) ==
    [image_sources |-> L.image_sources, current_index |-> L.idx,
     processed_links |-> L.links, errors |-> L.errors, chat_id |-> L.chat_id]

\* pending_state = {...}: L has idx already incremented
PendingState(L) ==
    [image_sources |-> L.image_sources, current_index |-> L.idx - 1,
     processed_links |-> L.links, errors |-> L.errors, chat_id |-> L.chat_id]

\* the branch `if not result["key_valid"]`, as if it recorded the rejected
\* image as an error
RejectedErrors_Recorded(L, item, result) ==
    Append(L.errors, ItemError(item, result.error))

\* the branch `if not result["key_valid"]` appends nothing to errors
RejectedErrors(L, item, result) == L.errors

\* the threshold test of the promotion, off by two
Promote_AfterOne(n) == n >= 1

\* if consecutive_successes >= 3
Promote(n) == n >= PromoteAfter

BarSegments == 20

\* progress = int((idx / total) * 20) and the text "(idx/total)"; the float
\* product truncates to the integer quotient for every total up to 2000
ProgressUpdate(idx, total) ==
    [processed |-> idx, total |-> total, filled |-> (idx * BarSegments) \div total]

\* The while loop of process_and_upload_images (and of
\* resume_after_key_update, which is the same loop) from its head to its next
\* await.  rejection is the exchange of a key rejection, or <<>> when the
\* host accepts the key.
RunLoop(L0, P, pending, listeners, rejection) ==
    LET L1 == SkipUndecodable(L0) IN
    IF L1.idx >= Len(L1.image_sources)
    THEN \* the loop ends: if consecutive_successes > 0: mark_key_as_valid
         Config(AfterReturn(L1, "completed"),
                IF L1.consecutive_successes > 0
                THEN mark_key_as_valid(L1.current_key, P) ELSE P,
                pending, listeners)
    ELSE LET item == L1.image_sources[L1.idx + 1]
             L2 == [L1 EXCEPT !.idx = L1.idx + 1]
             exchange == IF rejection # <<>> THEN rejection ELSE HostExchange(item)
             result == upload_to_imgbb(L2.current_key, exchange)
             wasfailed == L2.current_key \in P.failed
         IN
         IF result.success
         THEN LET n == L2.consecutive_successes + 1 IN
              Config([L2 EXCEPT !.links = Append(L2.links, Link(item, result.url)),
                                !.consecutive_successes = n,
                                !.progress = Append(L2.progress,
                                    ProgressUpdate(L2.idx, Len(L2.image_sources))),
                                !.log = Append(L2.log,
                                          LogUpload(L1.idx, L2.current_key, "ok", wasfailed)),
                                !.pc = "loop"],
                     IF Promote(n) THEN mark_key_as_valid(L2.current_key, P) ELSE P,
                     pending, listeners)
         ELSE IF ~result.key_valid
         THEN Config([L2 EXCEPT !.consecutive_successes = 0,
                                !.errors = RejectedErrors(L2, item, result),
                                !.log = L2.log \o
                                   << LogUpload(L1.idx, L2.current_key, "key", wasfailed),
                                      LogSuspend(L1.idx, PendingState(L2).current_index) >>,
                                !.pc = "ask"],
                     mark_key_as_failed(L2.current_key, P),
                     DictSet(pending, L2.chat_id, PendingState(L2)),
                     listeners)
         ELSE Config([L2 EXCEPT !.consecutive_successes = 0,
                                !.errors = Append(L2.errors, ItemError(item, result.error)),
                                !.progress = Append(L2.progress,
                                    ProgressUpdate(L2.idx, Len(L2.image_sources))),
                                !.log = Append(L2.log,
                                          LogUpload(L1.idx, L2.current_key, "err", wasfailed)),
                                !.pc = "loop"],
                     P, pending, listeners)

\* the shared state and the locals of request j after a block
Commit(j, C) ==
    /\ job' = [job EXCEPT ![j] = C.L]
    /\ SetPool(C.P)
    /\ pending_key_requests' = C.pending
    /\ active_listeners' = C.listeners

\* key rejections request j has met
Suspensions(j) == Len(SelectSeq(job[j].log, LAMBDA e : e.kind = "suspend"))

\* the rejections the image host may still answer to request j
Rejections(j) ==
    IF Suspensions(j) < MaxFails THEN KeyRejections \cup { <<>> } ELSE { <<>> }

(***************************************************************************)
(* cmd_ul and handle_container up to its first await (line 568): a         *)
(* requester replies /ul to an archive.                                    *)
(***************************************************************************)
cmd_ul(j, chat_id) ==
    /\ job[j].pc = "idle"
    /\ job' = [job EXCEPT ![j] = [job[j] EXCEPT !.pc = "hc_start",
                                               !.chat_id = chat_id]]
    /\ UNCHANGED << poolvars, pending_key_requests, active_listeners, last_post,
                    handlers, uvars >>

\* handle_container lines 570-627: drop the chat's pending state and listener,
\* read the archive (archive is what it holds); the request ends when it
\* holds no image
handle_container_clear(j, archive) ==
    LET L == job[j] IN
    /\ L.pc = "hc_start"
    /\ pending_key_requests' = DictDel(pending_key_requests, L.chat_id)
    /\ active_listeners' = DictDel(active_listeners, L.chat_id)
    /\ job' = [job EXCEPT ![j] =
                 IF archive = <<>>
                 THEN [L EXCEPT !.pc = "done", !.ended = "noimages"]
                 ELSE [L EXCEPT !.pc = "hc_dispatch", !.image_sources = archive]]
    /\ UNCHANGED << poolvars, last_post, handlers, uvars >>

\* process_and_upload_images from its start into the loop, to its next await
process_and_upload_images(j, rejection) ==
    LET L == [job[j] EXCEPT !.image_sources = SortSources(job[j].image_sources),
                            !.links = <<>>, !.errors = <<>>]
        P == ThePool
    IN
    IF P.keys = <<>>
    THEN Commit(j, Config(AfterReturn(L, "nokeys"), P, pending_key_requests,
                          active_listeners))
    ELSE LET current_key == get_current_imgbb_key(P) IN
         IF current_key = ""
         THEN Commit(j, Config(AfterReturn(L, "nokeys"), get_current_pool(P),
                               pending_key_requests, active_listeners))
         ELSE Commit(j, RunLoop([L EXCEPT !.current_key = current_key, !.idx = 0,
                                          !.consecutive_successes = 0,
                                          !.fellback = (available_valid_keys(P) = <<>>)],
                                get_current_pool(P), pending_key_requests,
                                active_listeners, rejection))

\* resume_after_key_update from its start to its await before the loop
resume_after_key_update(j) ==
    LET state == pending_key_requests[job[j].chat_id]
        L == [job[j] EXCEPT !.image_sources = state.image_sources,
                            !.links = state.processed_links,
                            !.errors = state.errors,
                            !.resumed = TRUE]
        pending == DictDel(pending_key_requests, job[j].chat_id)
        P == ThePool
    IN
    IF P.keys = <<>>
    THEN Commit(j, Config(AfterReturn(L, "nokeys"), P, pending, active_listeners))
    ELSE LET current_key == get_current_imgbb_key(P) IN
         IF current_key = ""
         THEN Commit(j, Config(AfterReturn(L, "nokeys"), get_current_pool(P), pending,
                               active_listeners))
         ELSE Commit(j, Config([L EXCEPT !.current_key = current_key,
                                         !.idx = state.current_index,
                                         !.consecutive_successes = 0,
                                         !.fellback = (available_valid_keys(P) = <<>>),
                                         !.pc = "loop"],
                               get_current_pool(P), pending, active_listeners))

\* handle_container lines 629-633
handle_container_upload(j) ==
    /\ job[j].pc = "hc_dispatch"
    /\ IF job[j].chat_id \in DOMAIN pending_key_requests
       THEN resume_after_key_update(j)
       ELSE \E rejection \in Rejections(j) : process_and_upload_images(j, rejection)
    /\ UNCHANGED << last_post, handlers, uvars >>

\* the loop, resumed after the progress message and the sleep
loop_iteration(j) ==
    /\ job[j].pc = "loop"
    /\ \E rejection \in Rejections(j) :
          Commit(j, RunLoop(job[j], ThePool, pending_key_requests, active_listeners,
                            rejection))
    /\ UNCHANGED << last_post, handlers, uvars >>

(***************************************************************************)
(* request_new_key.                                                        *)
(***************************************************************************)
Listener(event, response) == [event |-> event, response |-> response]

\* event.set() on the Event object `event`: the request that created it and
\* still waits on it becomes runnable
SetEvent(jobs, event) ==
    [x \in DOMAIN jobs |->
        IF x = event[1] /\ jobs[x].gen = event[2]
        THEN [jobs[x] EXCEPT !.evset = TRUE] ELSE jobs[x]]

\* The Event objects of request j are numbered; a new one takes the least
\* number that no suspended handler still holds.
NewEvent(j) ==
    CHOOSE g \in 1..(MaxSuspended + 1) :
        /\ \A h \in BagToSet(handlers) : h.event # <<j, g>>
        /\ \A g2 \in 1..(g - 1) : \E h \in BagToSet(handlers) : h.event = <<j, g2>>

\* lines 231-236, after the await of the prompt: a new Event, the listener
\* of the chat replaced by a new dict, then the wait
request_new_key_listen(j) ==
    LET L == job[j] IN
    /\ L.pc = "ask"
    /\ job' = [job EXCEPT ![j] = [L EXCEPT !.gen = NewEvent(j), !.evset = FALSE,
                                           !.pc = "wait"]]
    /\ active_listeners' =
          DictSet(active_listeners, L.chat_id, Listener(<<j, NewEvent(j)>>, None))
    /\ UNCHANGED << poolvars, pending_key_requests, last_post, handlers, uvars >>

\* the finally clause, as if it were missing
finally_NoCleanup(listeners, chat_id) == listeners

\* finally: if chat_id in active_listeners: del active_listeners[chat_id]
\* (the clauses of all the levels of the recursion run at the same return)
finally(listeners, chat_id) == DictDel(listeners, chat_id)

\* the retry of the same image, as if the index were not stepped back
RetryIndex_NoRewind(idx) == idx

\* idx -= 1
RetryIndex(idx) == idx - 1

\* lines 239-249 when the Event is set, and what follows the return in
\* process_and_upload_images (lines 321-334) up to the next await
request_new_key_wake(j, rejection) ==
    LET L == job[j]
        response_text ==
            IF L.chat_id \in DOMAIN active_listeners
            THEN active_listeners[L.chat_id].response ELSE None
    IN
    /\ L.pc = "wait"
    /\ L.evset
    /\ IF response_text # None /\ TextLower(response_text) = "/cancel"
       THEN \* return None; the caller returns links, errors
            Commit(j, Config(AfterReturn(L, "cancelled"), ThePool,
                             pending_key_requests,
                             finally(active_listeners, L.chat_id)))
       ELSE IF response_text # None /\ Len(response_text) >= MinKeyLen
       THEN \* return response_text; the caller appends it and retries the image
            Commit(j, RunLoop([L EXCEPT !.current_key = response_text,
                                        !.idx = RetryIndex(L.idx),
                                        !.log = Append(L.log,
                                                  LogNewKey(L.idx - 1, response_text))],
                              add_key(response_text, ThePool),
                              pending_key_requests,
                              finally(active_listeners, L.chat_id), rejection))
       ELSE \* the warning, then request_new_key again: its prompt is the next await
            Commit(j, Config([L EXCEPT !.pc = "ask"], ThePool, pending_key_requests,
                             active_listeners))
    /\ UNCHANGED << last_post, handlers, uvars >>

\* the wait, as if it had no timeout
TimeoutFires_Never(L) == FALSE

\* asyncio.wait_for(event.wait(), timeout=300): the timeout fires on a wait
\* whose Event is not set
TimeoutFires(L) == L.pc = "wait" /\ ~L.evset

\* asyncio.TimeoutError: the message of line 252 is the next await
request_new_key_timeout(j) ==
    /\ TimeoutFires(job[j])
    /\ job' = [job EXCEPT ![j] = [job[j] EXCEPT !.pc = "timed_out"]]
    /\ UNCHANGED << poolvars, pending_key_requests, active_listeners, last_post,
                    handlers, uvars >>

\* line 253: return None, and the caller returns links, errors
request_new_key_timed_out(j) ==
    /\ job[j].pc = "timed_out"
    /\ Commit(j, Config(AfterReturn(job[j], "timeout"), ThePool, pending_key_requests,
                        finally(active_listeners, job[j].chat_id)))
    /\ UNCHANGED << last_post, handlers, uvars >>

(***************************************************************************)
(* Telegraph.  A url is reported as a record: whether it starts with       *)
(* "http", the path of the page, and the call that returned it; an error   *)
(* text is a "url" that does not start with "http".                        *)
(***************************************************************************)
PageUrl(path, call) == [http |-> TRUE, path |-> path, call |-> call]
ErrorText(call) == [http |-> FALSE, path |-> 0, call |-> call]

ImgNode(link) == [tag |-> "img", src |-> link, text |-> <<>>]
TextNode(description) == [tag |-> "p", src |-> <<>>, text |-> description]

\* content_nodes of create_telegraph_post and edit_telegraph_title_only
ImageNodes(image_links) == [i \in 1..Len(image_links) |-> ImgNode(image_links[i])]

\* content_nodes of edit_telegraph_with_description
DescriptionNodes(image_links, description) ==
    IF image_links = <<>> THEN <<>>
    ELSE << ImgNode(image_links[1]) >>
         \o (IF description # <<>> THEN << TextNode(description) >> ELSE <<>>)
         \o ImageNodes(Tail(image_links))

\* extract_telegra_path_from_url
extract_telegra_path_from_url(url) == IF url.http THEN url.path ELSE 0

\* handle_container lines 646-670 and after_post_created: the page is created
\* and renamed, the chat's pending state and listener are dropped, last_post
\* is replaced, the errors are sent.  create_ok and edit_ok are what Telegraph
\* answers to the two calls.
\* final_url, as if the answer of the edit step were taken whatever it is
FinalUrl_AlwaysEdited(original_url, edited_url) ==
    IF original_url.http THEN edited_url ELSE original_url

\* final_url = original_url, replaced by edited_url when both start with "http"
FinalUrl(original_url, edited_url) ==
    IF original_url.http /\ edited_url.http THEN edited_url ELSE original_url

\* one call of the Telegraph API and the content_nodes sent with it
Posted(call, content) == [call |-> call, content |-> content]

handle_container_publish(j, create_ok, edit_ok) ==
    LET L == job[j]
        original_url == IF create_ok THEN PageUrl(j, "create") ELSE ErrorText("create")
        path == IF original_url.http THEN extract_telegra_path_from_url(original_url) ELSE 0
        edited_url == IF edit_ok THEN PageUrl(path, "edit") ELSE ErrorText("edit")
        final_url == FinalUrl(original_url, edited_url)
        posted == << Posted("create", ImageNodes(L.img_urls)) >>
                  \o (IF original_url.http
                      THEN << Posted("edit", ImageNodes(L.img_urls)) >> ELSE <<>>)
    IN
    /\ L.pc = "publish"
    /\ pending_key_requests' = DictDel(pending_key_requests, L.chat_id)
    /\ active_listeners' = DictDel(active_listeners, L.chat_id)
    /\ last_post' = << [path |-> path, img_urls |-> L.img_urls, final_url |-> final_url,
                        title |-> j, chat_id |-> L.chat_id] >>
    /\ job' = [job EXCEPT ![j] = [L EXCEPT !.pc = "done", !.created = create_ok,
                                           !.edited = edit_ok,
                                           !.posted = posted,
                                           !.final_url = << final_url >>,
                                           !.errors_sent = (L.errors # <<>>)]]
    /\ UNCHANGED << poolvars, handlers, uvars >>

\* cmd_ul returns: the locals of the request are gone
cmd_ul_return(j) ==
    /\ job[j].pc = "done"
    /\ job' = [job EXCEPT ![j] = IdleJob(0)]
    /\ UNCHANGED << poolvars, pending_key_requests, active_listeners, last_post,
                    handlers, uvars >>

(***************************************************************************)
(* The message handlers.  A handler that changes the shared state after an *)
(* await is split there: the rest of it waits in `handlers`.               *)
(***************************************************************************)
Suspended(kind, chat_id, key, event) ==
    [kind |-> kind, chat_id |-> chat_id, key |-> key, event |-> event]

\* the description branch of handle_text_messages, lines 773-780
HasPost(chat_id) == last_post # <<>> /\ last_post[1].chat_id = chat_id

\* The requesters stop sending keys when the list has MaxKeys entries: the
\* entries a message adds (the handler's append and the append of the request
\* it wakes), and whether its handler stays suspended at an await.
Appends(chat_id, words) ==
    IF chat_id \notin DOMAIN active_listeners THEN 0
    ELSE IF TextLower(JoinWords(words)) = "/cancel" THEN 0
    ELSE IF words[1] = "/addkey"
    THEN (IF Len(words) >= 2 /\ Len(words[2]) >= MinKeyLen THEN 2 ELSE 0)
    ELSE IF Len(JoinWords(words)) >= MinKeyLen THEN 1 ELSE 0

Suspends(chat_id, words) ==
    IF chat_id \in DOMAIN active_listeners
    THEN Appends(chat_id, words) = 2
    ELSE last_post # <<>> /\ last_post[1].chat_id = chat_id

CanSuspend == BagCardinality(handlers) < MaxSuspended

\* the test `if chat_id in active_listeners`, as if no listener were ever found
ListenerActive_Never(chat_id) == FALSE

\* if chat_id in active_listeners
ListenerActive(chat_id) == chat_id \in DOMAIN active_listeners

\* handle_text_messages up to its first await
handle_text_messages(chat_id, words) ==
    LET text == JoinWords(words)
        P == ThePool
    IN
    /\ Len(current_imgbb_keys) + Appends(chat_id, words) <= MaxKeys
    /\ Suspends(chat_id, words) => CanSuspend
    /\ IF ListenerActive(chat_id)
       THEN LET listener_data == active_listeners[chat_id] IN
            IF TextLower(text) = "/cancel"
            THEN /\ active_listeners' =
                       DictSet(active_listeners, chat_id,
                               Listener(listener_data.event, "/cancel"))
                 /\ job' = SetEvent(job, listener_data.event)
                 /\ UNCHANGED << poolvars, handlers, last_post >>
            ELSE IF words[1] = "/addkey"
            THEN IF Len(words) >= 2 /\ Len(words[2]) >= MinKeyLen
                 THEN \* lines 749-751; lines 753-754 follow the await of the reply
                      /\ SetPool(add_key(words[2], P))
                      /\ handlers' = handlers (+)
                            SetToBag({Suspended("addkey", chat_id, words[2],
                                                listener_data.event)})
                      /\ UNCHANGED << active_listeners, job, last_post >>
                 ELSE UNCHANGED << poolvars, active_listeners, job, handlers, last_post >>
            ELSE IF Len(text) >= MinKeyLen
            THEN /\ active_listeners' =
                       DictSet(active_listeners, chat_id,
                               Listener(listener_data.event, text))
                 /\ job' = SetEvent(job, listener_data.event)
                 /\ UNCHANGED << poolvars, handlers, last_post >>
            ELSE UNCHANGED << poolvars, active_listeners, job, handlers, last_post >>
       ELSE IF HasPost(chat_id)
       THEN \* the page is edited; last_post.clear() follows the await of line 780
            /\ handlers' = handlers (+)
                  SetToBag({Suspended("describe", chat_id, "", <<0, 0>>)})
            /\ UNCHANGED << poolvars, active_listeners, job, last_post >>
       ELSE UNCHANGED << poolvars, active_listeners, job, handlers, last_post >>
    /\ UNCHANGED << pending_key_requests, uvars >>

\* handle_text_messages lines 753-754, after the await of the reply:
\* listener_data is the dict the handler read before the await
handle_text_messages_addkey(h) ==
    /\ BagIn(h, handlers)
    /\ h.kind = "addkey"
    /\ handlers' = handlers (-) SetToBag({h})
    /\ active_listeners' =
          IF h.chat_id \in DOMAIN active_listeners
             /\ active_listeners[h.chat_id].event = h.event
          THEN DictSet(active_listeners, h.chat_id, Listener(h.event, h.key))
          ELSE active_listeners
    /\ job' = SetEvent(job, h.event)
    /\ UNCHANGED << poolvars, pending_key_requests, last_post, uvars >>

\* last_post.clear() of handle_text_messages (line 781) and of
\* skip_description (line 801), after the await of the message
clear_last_post(h) ==
    /\ BagIn(h, handlers)
    /\ h.kind \in {"describe", "skip"}
    /\ handlers' = handlers (-) SetToBag({h})
    /\ last_post' = <<>>
    /\ UNCHANGED << poolvars, pending_key_requests, active_listeners, job, uvars >>

\* skip_description up to its await
skip_description(chat_id) ==
    /\ HasPost(chat_id) => CanSuspend
    /\ handlers' = IF HasPost(chat_id)
                   THEN handlers (+) SetToBag({Suspended("skip", chat_id, "", <<0, 0>>)})
                   ELSE handlers
    /\ UNCHANGED << poolvars, pending_key_requests, active_listeners, last_post, job,
                    uvars >>

\* add_key_manual
add_key_manual(chat_id, new_key) ==
    /\ Len(new_key) >= MinKeyLen => Len(current_imgbb_keys) < MaxKeys
    /\ IF Len(new_key) < MinKeyLen
       THEN UNCHANGED poolvars
       ELSE SetPool(add_key(new_key, ThePool))
    /\ UNCHANGED << pending_key_requests, active_listeners, last_post, job, handlers,
                    uvars >>

\* reset_state
reset_state(chat_id) ==
    /\ pending_key_requests' = DictDel(pending_key_requests, chat_id)
    /\ active_listeners' = DictDel(active_listeners, chat_id)
    /\ last_post' = IF HasPost(chat_id) THEN <<>> ELSE last_post
    /\ UNCHANGED << poolvars, job, handlers, uvars >>

(***************************************************************************)
(* The bot after main() has called initialize_imgbb_keys.                  *)
(***************************************************************************)
Init ==
    /\ \E keys \in InitKeyLists : 
          /\ current_imgbb_keys = initialize_imgbb_keys(keys).keys
          /\ current_key_index = initialize_imgbb_keys(keys).index
          /\ valid_keys = initialize_imgbb_keys(keys).valid
          /\ failed_keys = initialize_imgbb_keys(keys).failed
    /\ pending_key_requests = <<>>
    /\ active_listeners = <<>>
    /\ last_post = <<>>
    /\ job = [j \in Jobs |-> IdleJob(0)]
    /\ handlers = EmptyBag
    /\ u_key = ""
    /\ u_exchange = <<>>
    /\ u_result = <<>>

\* what Telegraph answers to createPage and to editPage: whether each call
\* returns a url (the page is not edited when it was not created)
TelegraphAnswers == { a \in BOOLEAN \X BOOLEAN : ~a[1] => ~a[2] }

TelegraphWorks == { <<TRUE, TRUE>> }

\* the steps of request j; its archive is one of archives, Telegraph's answers
\* one of answers
JobStep(j, archives, answers) ==
    \/ \E archive \in archives : handle_container_clear(j, archive)
    \/ handle_container_upload(j)
    \/ loop_iteration(j)
    \/ request_new_key_listen(j)
    \/ \E rejection \in Rejections(j) : request_new_key_wake(j, rejection)
    \/ request_new_key_timeout(j)
    \/ request_new_key_timed_out(j)
    \/ \E a \in answers : handle_container_publish(j, a[1], a[2])

\* the messages of the requester of chat_id
Requester(chat_id) ==
    \/ \E words \in Texts : handle_text_messages(chat_id, words)
    \/ skip_description(chat_id)
    \/ \E new_key \in SuppliedKeys \cup {"short"} : add_key_manual(chat_id, new_key)
    \/ reset_state(chat_id)

\* the rest of the handlers suspended at an await
HandlerStep ==
    \/ \E h \in BagToSet(handlers) : handle_text_messages_addkey(h)
    \/ \E h \in BagToSet(handlers) : clear_last_post(h)

\* Two requests, of the same chat or of two chats, in any interleaving.
Next ==
    \/ cmd_ul(1, 1)
    \/ \E chat_id \in Chats : job[1].pc # "idle" /\ cmd_ul(2, chat_id)
    \/ \E j \in Jobs : JobStep(j, SmallArchives, TelegraphAnswers)
    \/ \E chat_id \in Chats : Requester(chat_id)
    \/ HandlerStep

Spec == Init /\ [][Next]_vars

\* One request, with an archive of up to MaxItems images.
NextSeq ==
    \/ cmd_ul(1, 1)
    \/ JobStep(1, Archives(MaxItems), TelegraphAnswers)
    \/ Requester(1)
    \/ HandlerStep

SpecSeq == Init /\ [][NextSeq]_vars

\* The requests of one chat, one after the other, while Telegraph works.
NextRuns ==
    \/ cmd_ul(1, 1)
    \/ JobStep(1, SmallArchives, TelegraphWorks)
    \/ cmd_ul_return(1)
    \/ Requester(1)
    \/ HandlerStep

SpecRuns == Init /\ [][NextRuns]_vars

(***************************************************************************)
(* upload_to_imgbb on its own: one call, for every key and every exchange  *)
(* of a small set of outcomes.                                             *)
(***************************************************************************)
Statuses == {200, 400, 403, 500}

\* error messages of a body: "Bad Key", "No data", ""
Messages == { <<66, 97, 100, 32, 75, 101, 121>>, <<78, 111, 32, 100, 97, 116, 97>>, <<>> }

Responses ==
    { Response(status, json, message, ok, ok, IF ok THEN <<117>> ELSE <<>>) :
        status \in Statuses, json \in BOOLEAN, message \in Messages, ok \in BOOLEAN }

\* n ReadTimeouts
Timeouts(n) == [i \in 1..n |-> ReadTimeout]

\* what the network would give to each of the attempts, whether made or not
CoreOutcomes ==
    { ReadTimeout, OtherException,
      Response(200, TRUE, <<>>, TRUE, TRUE, <<117>>),
      Response(400, TRUE, <<66, 97, 100, 32, 75, 101, 121>>, FALSE, FALSE, <<>>),
      Response(500, FALSE, <<>>, FALSE, FALSE, <<>>) }

\* an attempt follows only a ReadTimeout
Exchanges ==
    { Timeouts(n) \o <<o>> : n \in 0..(retries - 1), o \in Responses \cup {OtherException} }
    \cup { Timeouts(retries) }
    \cup [1..retries -> CoreOutcomes]

InitUpload ==
    /\ current_imgbb_keys = initialize_imgbb_keys(<<K1>>).keys
    /\ current_key_index = initialize_imgbb_keys(<<K1>>).index
    /\ valid_keys = initialize_imgbb_keys(<<K1>>).valid
    /\ failed_keys = initialize_imgbb_keys(<<K1>>).failed
    /\ pending_key_requests = <<>>
    /\ active_listeners = <<>>
    /\ last_post = <<>>
    /\ job = [j \in Jobs |-> IdleJob(0)]
    /\ handlers = EmptyBag
    /\ u_key \in {"", K1}
    /\ u_exchange \in Exchanges
    /\ u_result = <<>>

\* result = upload_to_imgbb(buffer, name, api_key=u_key)
call_upload_to_imgbb ==
    /\ u_result = <<>>
    /\ u_result' = << upload_to_imgbb(u_key, u_exchange) >>
    /\ UNCHANGED << poolvars, pending_key_requests, active_listeners, last_post, job,
                    handlers, u_key, u_exchange >>

NextUpload == call_upload_to_imgbb

SpecUpload == InitUpload /\ [][NextUpload]_vars


(***************************************************************************)
(* What a request did, read from its locals.                               *)
(***************************************************************************)
\* the name of the item a url was given to (UrlOf puts one character before it)
NameOfUrl(url) == Tail(url)

Uploads(log) == SelectSeq(log, LAMBDA e : e.kind = "upload")

SuspendsOf(log) == SelectSeq(log, LAMBDA e : e.kind = "suspend")

\* the item of the last key rejection of a request
LastRejected(log) == SuspendsOf(log)[Len(SuspendsOf(log))].i

\* A run of the loop over items with the key `key` that the host never
\* rejects: the locals at its end.
RECURSIVE RunToEnd(_, _)
RunToEnd(L, P) ==
    LET C == RunLoop(L, P, <<>>, <<>>, <<>>) IN
    IF C.L.pc = "loop" THEN RunToEnd(C.L, C.P) ELSE C.L

NoSwapRun(items, key) ==
    RunToEnd([IdleJob(0) EXCEPT !.image_sources = items, !.current_key = key,
                                !.pc = "loop"],
             initialize_imgbb_keys(<<key>>))

SetOf(seq) == { seq[i] : i \in DOMAIN seq }

(***************************************************************************)
(* C1.  The list of urls a request hands to create_telegraph_post is in    *)
(* the case-insensitive lexicographic order of the names of its items:     *)
(* for any two urls of the list, the lower-cased name of the later one is  *)
(* not less than the lower-cased name of the earlier one, whatever         *)
(* successes, item errors and key replacements the request met.            *)
(***************************************************************************)
C1_UrlsInNameOrder ==
    \A j \in Jobs :
        \A p, q \in DOMAIN job[j].img_urls :
            p < q => ~StrLess(Lower(NameOfUrl(job[j].img_urls[q])),
                              Lower(NameOfUrl(job[j].img_urls[p])))

\* a request about to publish two urls after a key replacement, whose names
\* "a", "B" are in the opposite order when the case is not folded
C1_Witness ==
    \E j \in Jobs :
        /\ job[j].pc = "publish"
        /\ Len(job[j].img_urls) >= 2
        /\ Len(SuspendsOf(job[j].log)) >= 1
        /\ StrLess(NameOfUrl(job[j].img_urls[2]), NameOfUrl(job[j].img_urls[1]))

(***************************************************************************)
(* C2.  In the record of what a request did: a rejected upload of item i   *)
(* is followed at once by the snapshot, whose cursor is i; a key k         *)
(* received after it is followed at once by an upload of item i with k;    *)
(* and of two successive uploads the later one is of the same item when    *)
(* the earlier one was rejected, and of a later item otherwise.            *)
(***************************************************************************)
C2_RetriesSameItem ==
    \A j \in Jobs :
        LET log == job[j].log
            ups == Uploads(log)
        IN
        /\ \A p \in DOMAIN log :
              /\ (log[p].kind = "upload" /\ log[p].res = "key")
                    => /\ p + 1 <= Len(log)
                       /\ log[p + 1].kind = "suspend"
                       /\ log[p + 1].i = log[p].i
                       /\ log[p + 1].cursor = log[p].i
              /\ log[p].kind = "newkey"
                    => /\ p > 1 /\ log[p - 1].kind = "suspend"
                       /\ p + 1 <= Len(log)
                       /\ log[p + 1].kind = "upload"
                       /\ log[p + 1].i = log[p - 1].i
                       /\ log[p + 1].key = log[p].key
        /\ \A p \in 1..(Len(ups) - 1) :
              IF ups[p].res = "key" THEN ups[p + 1].i = ups[p].i
              ELSE ups[p + 1].i > ups[p].i
        /\ \A c \in SetOf(SuspendsOf(log)) : c.i < Len(job[j].image_sources)
        /\ (job[j].pc \in {"ask", "wait", "timed_out"}
              /\ job[j].chat_id \in DOMAIN pending_key_requests)
              => pending_key_requests[job[j].chat_id].current_index
                    = LastRejected(log)

\* the second item is rejected, a key is received, the second item is
\* uploaded with it
C2_Witness ==
    \E j \in Jobs :
        \E p \in DOMAIN job[j].log :
            /\ job[j].log[p].kind = "newkey"
            /\ job[j].log[p].i = 1
            /\ job[j].log[p + 1].res = "ok"
            /\ job[j].log[p + 1].key = K3
            /\ Len(job[j].links) = 2

(***************************************************************************)
(* C3.  A request that met one key rejection and completed with the key    *)
(* it received ends with the same set of (name, url) successes as a run    *)
(* over the same items that uses that key from the first item and meets no *)
(* rejection.                                                              *)
(***************************************************************************)
C3_SwapIsTransparent ==
    \A j \in Jobs :
        (job[j].ended = "completed" /\ Len(SuspendsOf(job[j].log)) = 1)
            => SetOf(job[j].links)
                  = SetOf(NoSwapRun(job[j].image_sources, job[j].current_key).links)

\* the rejection came at the second item, after a success, and both items
\* are among the successes
C3_Witness ==
    \E j \in Jobs :
        /\ job[j].ended = "completed"
        /\ Len(SuspendsOf(job[j].log)) = 1
        /\ LastRejected(job[j].log) = 1
        /\ job[j].current_key = K3
        /\ Len(job[j].links) = 2

(***************************************************************************)
(* C4.  A request whose solicitation ended by /cancel or by the timeout    *)
(* returns the successes and the errors of the items before the rejected   *)
(* item i, and nothing else: its links and its errors are those of a run   *)
(* over the items before i alone.                                          *)
(***************************************************************************)
C4_CancelKeepsPrefix ==
    \A j \in Jobs :
        job[j].ended \in {"cancelled", "timeout"}
            => LET i == LastRejected(job[j].log)
                   before == SubSeq(job[j].image_sources, 1, i)
                   ref == NoSwapRun(before, job[j].log[1].key)
               IN /\ job[j].links = ref.links
                  /\ job[j].errors = ref.errors
                  /\ job[j].pc \in {"done", "publish"}

\* a cancel at the second item, with the first item among the successes
C4_Witness ==
    \E j \in Jobs :
        /\ job[j].ended = "cancelled"
        /\ LastRejected(job[j].log) = 1
        /\ Len(job[j].links) = 1


(***************************************************************************)
(* C5.  In every state the bot reaches, when the list holds a key that is  *)
(* not failed, get_current_imgbb_key returns a key that is not failed.     *)
(***************************************************************************)
C5_CurrentAvoidsFailed ==
    (\E i \in DOMAIN current_imgbb_keys : current_imgbb_keys[i] \notin failed_keys)
        => get_current_imgbb_key(ThePool) \notin failed_keys

\* the first key of the list is failed, and the key returned is a later one
C5_Witness ==
    /\ Len(current_imgbb_keys) >= 2
    /\ current_imgbb_keys[1] \in failed_keys
    /\ get_current_imgbb_key(ThePool) \notin failed_keys
    /\ get_current_imgbb_key(ThePool) # current_imgbb_keys[1]

(***************************************************************************)
(* C6, as the specification states it: every key in valid_keys has had     *)
(* three successful uploads in a row.                                      *)
(***************************************************************************)
ThreeInARow(log, k) ==
    \E p \in 1..(Len(log) - 2) :
        \A q \in p..(p + 2) :
            log[q].kind = "upload" /\ log[q].res = "ok" /\ log[q].key = k

C6_AsClaimed ==
    \A k \in valid_keys : \E j \in Jobs : ThreeInARow(job[j].log, k)

(***************************************************************************)
(* C6, amended.  The keys loaded at start are valid.  Afterwards a key     *)
(* enters valid_keys only in a step that appends it to the list (a         *)
(* requester supplied it), or in a step of a request that uploads with it  *)
(* and has reached three successes in a row, or that ends its loop after   *)
(* at least one success in a row.                                          *)
(***************************************************************************)
C6_ValidBySupplyOrStreak ==
    /\ valid_keys = SetOf(current_imgbb_keys)
    /\ [][ \A k \in valid_keys' \ valid_keys :
              \/ /\ Len(current_imgbb_keys') = Len(current_imgbb_keys) + 1
                 /\ current_imgbb_keys'[Len(current_imgbb_keys')] = k
              \/ \E j \in Jobs :
                    /\ job'[j].current_key = k
                    /\ \/ job'[j].consecutive_successes >= PromoteAfter
                       \/ /\ job[j].ended = "" /\ job'[j].ended = "completed"
                          /\ job'[j].consecutive_successes >= 1 ]_vars

\* a request that took a failed key has made three successful uploads in a
\* row with it, and the key is valid again
C6_Witness ==
    \E j \in Jobs :
        /\ Len(job[j].log) = PromoteAfter
        /\ \A p \in DOMAIN job[j].log :
              job[j].log[p].res = "ok" /\ job[j].log[p].failed
        /\ job[j].consecutive_successes = PromoteAfter
        /\ job[j].current_key \in valid_keys

Deciding == u_exchange[u_result[1].attempts]

C9_AsClaimed ==
    [][ \A j \in Jobs :
           Len(SuspendsOf(job'[j].log)) > Len(SuspendsOf(job[j].log))
               => available_valid_keys(ThePool)'  = <<>> ]_vars

(***************************************************************************)
(* C10, as the specification states it: when a request that ended by       *)
(* /cancel or by the timeout has finished, pending_key_requests has no     *)
(* entry for its chat.                                                     *)
(***************************************************************************)
C10_AsClaimed ==
    \A j \in Jobs :
        (job[j].pc = "done" /\ job[j].ended \in {"cancelled", "timeout"})
            => job[j].chat_id \notin DOMAIN pending_key_requests

(***************************************************************************)
(* C11.  A request that is not inside request_new_key (it is not at the    *)
(* prompt, at the wait or at the message of the timeout) has no entry of   *)
(* its own in active_listeners: whichever way the call returned (a key,    *)
(* /cancel, the timeout, at any depth of the re-prompt), the entry it      *)
(* created is gone.                                                        *)
(***************************************************************************)
InRequestNewKey(j) == job[j].pc \in {"ask", "wait", "timed_out"}

OwnListeners(j) ==
    { c \in DOMAIN active_listeners : active_listeners[c].event[1] = j }

C11_ListenerRemovedOnReturn ==
    \A j \in Jobs : ~InRequestNewKey(j) => OwnListeners(j) = {}

\* request_new_key has returned a key to a request, which goes on uploading,
\* and the chat has no listener
C11_Witness ==
    \E j \in Jobs :
        /\ job[j].pc = "loop"
        /\ \E p \in DOMAIN job[j].log : job[j].log[p].kind = "newkey"
        /\ job[j].chat_id \notin DOMAIN active_listeners

(***************************************************************************)
(* C12, as the specification states it: once the listener of a chat holds  *)
(* a received value, no step changes the value while the same listener     *)
(* (the same Event) is the chat's listener.                                *)
(***************************************************************************)
C12_AsClaimed ==
    [][ \A c \in DOMAIN active_listeners :
           (/\ active_listeners[c].response # None
            /\ c \in DOMAIN active_listeners'
            /\ active_listeners'[c].event = active_listeners[c].event)
               => active_listeners'[c].response = active_listeners[c].response ]_vars

(***************************************************************************)
(* Two requests of one chat that overlap in time: the second /ul arrives   *)
(* while the first request is in progress.  Each archive holds one image,  *)
(* Telegraph works, and the requester answers a solicitation with a key,   *)
(* with /addkey or with /cancel.                                           *)
(***************************************************************************)
OneImage == { a \in Archives(1) : Len(a) = 1 /\ a[1].name = <<97>> }

ReplyTexts == { <<"/cancel">>, <<K3>>, <<"/addkey", K3>> }

NextPair ==
    \/ cmd_ul(1, 1)
    \/ job[1].pc # "idle" /\ cmd_ul(2, 1)
    \/ \E j \in Jobs : JobStep(j, OneImage, TelegraphWorks)
    \/ \E words \in ReplyTexts : handle_text_messages(1, words)
    \/ HandlerStep

SpecPair == Init /\ [][NextPair]_vars

(***************************************************************************)
(* C13, as the specification states it: a request starts uploading (it     *)
(* leaves handle_container for the upload function) only when no other     *)
(* request of its chat is inside request_new_key, waiting for a key.       *)
(***************************************************************************)
C13_AsClaimed ==
    [][ \A j1, j2 \in Jobs :
           (/\ j1 # j2
            /\ job[j1].chat_id = job[j2].chat_id
            /\ job[j2].pc = "hc_dispatch"
            /\ job'[j2].pc # "hc_dispatch")
               => ~InRequestNewKey(j1) ]_vars

(***************************************************************************)
(* C14.  A text message is taken as the description of the chat's post     *)
(* (the description branch of handle_text_messages runs) only in a step    *)
(* that starts with no listener for the chat and with a post of the chat   *)
(* in last_post, and that step gives nothing to a listener: it changes no  *)
(* listener, wakes no request and adds no key.                             *)
(***************************************************************************)
DescriptionHandler(c) == Suspended("describe", c, "", <<0, 0>>)

C14_OneConsumer ==
    [][ \A c \in Chats :
           CopiesIn(DescriptionHandler(c), handlers')
              > CopiesIn(DescriptionHandler(c), handlers)
               => /\ c \notin DOMAIN active_listeners
                  /\ HasPost(c)
                  /\ UNCHANGED << active_listeners, job, poolvars >> ]_vars

\* a post of the chat awaits its description and a listener of the chat is
\* active: the key the requester sent went to the listener, and no handler
\* took it as the description
C14_Witness ==
    /\ HasPost(1)
    /\ 1 \in DOMAIN active_listeners
    /\ active_listeners[1].response = K3
    /\ handlers = EmptyBag

(***************************************************************************)
(* One request on an archive whose images fail in every way an item can    *)
(* fail: "1" meets a ReadTimeout at every attempt, "c" gets a 500, "D"     *)
(* does not decode; "a" is a good image.                                   *)
(***************************************************************************)
FailingMembers ==
    { [name |-> <<49>>, payload |-> "slow"],
      [name |-> <<97>>, payload |-> "jpeg"],
      [name |-> <<99>>, payload |-> "toobig"],
      [name |-> <<68>>, payload |-> "corrupt"] }

ItemArchives ==
    { a \in UNION { [1..n -> FailingMembers] : n \in 0..MaxItems } :
        \A p, q \in DOMAIN a : p # q => a[p] # a[q] }

NextItems ==
    \/ cmd_ul(1, 1)
    \/ JobStep(1, ItemArchives, TelegraphWorks)
    \/ \E words \in ReplyTexts : handle_text_messages(1, words)
    \/ HandlerStep

SpecItems == Init /\ [][NextItems]_vars

\* the item fails at the item level: it does not decode, or its upload with a
\* key the host accepts does not succeed
ItemFails(item, key) ==
    \/ ~validar_y_reparar_imagen(item.payload)
    \/ ~upload_to_imgbb(key, HostExchange(item)).success

\* the items a request is done with: those before the index, less the one
\* that waits for a key or that was given up at a cancel or a timeout
Processed(j) ==
    IF InRequestNewKey(j) \/ job[j].ended \in {"cancelled", "timeout"}
    THEN job[j].idx - 1 ELSE job[j].idx

ErrorsNaming(j, name) ==
    Len(SelectSeq(job[j].errors, LAMBDA e : e.name = name))

(***************************************************************************)
(* C15.  Every item a request is done with has exactly one entry in errors *)
(* when it failed at the item level (no decoding, an upload error, the     *)
(* timeouts exhausted) and none otherwise; the items not yet processed     *)
(* have none; and a request leaves its loop before the last item only      *)
(* through request_new_key (after a key rejection).                        *)
(***************************************************************************)
C15_ItemFailureContinues ==
    \A j \in Jobs :
        job[j].current_key # ""
            => /\ \A i \in DOMAIN job[j].image_sources :
                     ErrorsNaming(j, job[j].image_sources[i].name)
                        = IF i <= Processed(j)
                             /\ ItemFails(job[j].image_sources[i], job[j].current_key)
                          THEN 1 ELSE 0
               /\ Len(job[j].errors) <= Processed(j)
               /\ job[j].ended = "completed"
                     => job[j].idx = Len(job[j].image_sources)
               /\ (job[j].ended # "" /\ job[j].idx < Len(job[j].image_sources))
                     => /\ job[j].ended \in {"cancelled", "timeout"}
                        /\ SuspendsOf(job[j].log) # <<>>

\* the first item exhausted the timeouts, the second was uploaded, and the
\* request completed with one error and one success
C15_Witness ==
    \E j \in Jobs :
        /\ job[j].ended = "completed"
        /\ Len(job[j].image_sources) = 2
        /\ job[j].image_sources[1].payload = "slow"
        /\ job[j].errors = << ItemError(job[j].image_sources[1], "Timeout agotado") >>
        /\ Len(job[j].links) = 1

(***************************************************************************)
(* C16, as the specification states it: for every item a request is done   *)
(* with, the i-th of total, the request has sent exactly one progress text *)
(* with i/total and floor(20 * i / total) filled segments.                 *)
(***************************************************************************)
C16_AsClaimed ==
    \A j \in Jobs :
        job[j].current_key # ""
            => \A i \in 1..Processed(j) :
                  Len(SelectSeq(job[j].progress,
                        LAMBDA u : u = ProgressUpdate(i, Len(job[j].image_sources)))) = 1

(***************************************************************************)
(* C17.  A call made with a key makes at most `retries` (3) attempts;      *)
(* every attempt before the last one it made met a ReadTimeout; the last   *)
(* one met a response or another exception, or was the third ReadTimeout,  *)
(* and then the result is a failure with key_valid = True.                 *)
(***************************************************************************)
C17_RetriesOnlyOnTimeout ==
    (u_result # <<>> /\ u_key # "")
        => /\ u_result[1].attempts \in 1..retries
           /\ u_result[1].attempts <= Len(u_exchange)
           /\ \A a \in 1..(u_result[1].attempts - 1) : u_exchange[a] = ReadTimeout
           /\ Deciding = ReadTimeout
                 => /\ u_result[1].attempts = retries
                    /\ ~u_result[1].success
                    /\ u_result[1].key_valid

\* the call stopped at its second attempt, on an exception, though the third
\* attempt would have succeeded
C17_Witness ==
    /\ u_result # <<>>
    /\ u_key # ""
    /\ Len(u_exchange) = retries
    /\ u_result[1].attempts = 2
    /\ Deciding = OtherException
    /\ u_exchange[retries].kind = "response"
    /\ u_exchange[retries].success

(***************************************************************************)
(* C18, as the specification states it: a request that has ended with a    *)
(* non-empty error list has sent its errors to the requester.              *)
(***************************************************************************)
C18_AsClaimed ==
    \A j \in Jobs :
        (job[j].pc = "done" /\ job[j].errors # <<>>) => job[j].errors_sent

(***************************************************************************)
(* C19, as the specification states it: last_post holds a post only when   *)
(* the createPage call returned a page URL, so the final_url of every      *)
(* post starts with "http".                                                *)
(***************************************************************************)
C19_AsClaimed ==
    last_post # <<>> => last_post[1].final_url.http

(***************************************************************************)
(* The requests of two chats, one after the other, and the messages of     *)
(* both requesters, while Telegraph works.                                 *)
(***************************************************************************)
NextChats ==
    \/ \E chat_id \in Chats : cmd_ul(1, chat_id)
    \/ JobStep(1, OneImage, TelegraphWorks)
    \/ cmd_ul_return(1)
    \/ \E chat_id \in Chats : \E words \in ReplyTexts \cup {<<"hi">>} :
          handle_text_messages(chat_id, words)
    \/ \E chat_id \in Chats : skip_description(chat_id)
    \/ \E chat_id \in Chats : reset_state(chat_id)
    \/ HandlerStep

SpecChats == Init /\ [][NextChats]_vars

(***************************************************************************)
(* C20, as the specification states it: while last_post holds the post of  *)
(* requester A, no step puts the post of another requester in its place.   *)
(***************************************************************************)
C20_AsClaimed ==
    [][\A c \in Chats :
          (HasPost(c) /\ last_post' # last_post)
              => (last_post' = <<>> \/ last_post'[1].chat_id = c)]_vars

C22_AsClaimed ==
    \A p, q \in DOMAIN current_imgbb_keys :
        p # q => current_imgbb_keys[p] # current_imgbb_keys[q]

(***************************************************************************)
(* edit_telegraph_with_description on its own.  Texts are sequences of     *)
(* character codes.  The content sent to Telegraph is                      *)
(* str(content_nodes).replace("'", '"'): the repr of a list of dicts, its  *)
(* apostrophes replaced by double quotes.                                  *)
(***************************************************************************)
MaxLinks == 3   \* image urls of a post
MaxText == 2    \* characters of a description

Apostrophe == 39
DoubleQuote == 34
Backslash == 92

\* the characters of a description: a letter, an apostrophe, a double quote
TextChars == {97, Apostrophe, DoubleQuote}

Descriptions == UNION { [1..n -> TextChars] : n \in 0..MaxText }

\* the urls the image host gave: "u", "v", "w"
LinkLists == UNION { [1..n -> { <<117>>, <<118>>, <<119>> }] : n \in 0..MaxLinks }

\* the texts of a sequence of texts, one after the other
RECURSIVE Concat(_)
Concat(parts) == IF parts = <<>> THEN <<>> ELSE Head(parts) \o Concat(Tail(parts))

\* ", ".join(parts)
RECURSIVE JoinComma(_)
JoinComma(parts) ==
    IF parts = <<>> THEN <<>>
    ELSE IF Len(parts) = 1 THEN parts[1]
    ELSE parts[1] \o <<44, 32>> \o JoinComma(Tail(parts))

\* repr() of a str: double quotes when the text holds an apostrophe and no
\* double quote, else apostrophes, with the apostrophes and backslashes of the
\* text escaped
PyReprStr(text) ==
    LET quote == IF (\E i \in DOMAIN text : text[i] = Apostrophe)
                    /\ ~(\E i \in DOMAIN text : text[i] = DoubleQuote)
                 THEN DoubleQuote ELSE Apostrophe
        esc(c) == IF c = Backslash \/ c = quote THEN <<Backslash, c>> ELSE <<c>>
    IN << quote >> \o Concat([i \in DOMAIN text |-> esc(text[i])]) \o << quote >>

\* repr() of {"tag": "img", "attrs": {"src": link}} and of
\* {"tag": "p", "children": [description]}
PyReprNode(node) ==
    IF node.tag = "img"
    THEN <<123>> \o PyReprStr(<<116, 97, 103>>) \o <<58, 32>>
               \o PyReprStr(<<105, 109, 103>>) \o <<44, 32>>
               \o PyReprStr(<<97, 116, 116, 114, 115>>) \o <<58, 32>>
               \o <<123>> \o PyReprStr(<<115, 114, 99>>) \o <<58, 32>>
               \o PyReprStr(node.src) \o <<125, 125>>
    ELSE <<123>> \o PyReprStr(<<116, 97, 103>>) \o <<58, 32>>
               \o PyReprStr(<<112>>) \o <<44, 32>>
               \o PyReprStr(<<99, 104, 105, 108, 100, 114, 101, 110>>) \o <<58, 32>>
               \o <<91>> \o PyReprStr(node.text) \o <<93, 125>>

\* str(content_nodes)
PyStr(nodes) ==
    <<91>> \o JoinComma([i \in DOMAIN nodes |-> PyReprNode(nodes[i])]) \o <<93>>

\* .replace("'", '"')
ReplaceApostrophes(text) ==
    [i \in DOMAIN text |-> IF text[i] = Apostrophe THEN DoubleQuote ELSE text[i]]

\* the "content" field of the payload of edit_telegraph_with_description
edit_telegraph_with_description(image_links, description) ==
    ReplaceApostrophes(PyStr(DescriptionNodes(image_links, description)))

\* The JSON text of a string and of a list of nodes, written as json.dumps
\* writes them: it is the JSON text Telegraph reads back as those nodes.
JsonStr(text) ==
    LET esc(c) == IF c = Backslash \/ c = DoubleQuote THEN <<Backslash, c>> ELSE <<c>>
    IN << DoubleQuote >> \o Concat([i \in DOMAIN text |-> esc(text[i])]) \o << DoubleQuote >>

JsonNode(node) ==
    IF node.tag = "img"
    THEN <<123>> \o JsonStr(<<116, 97, 103>>) \o <<58, 32>>
               \o JsonStr(<<105, 109, 103>>) \o <<44, 32>>
               \o JsonStr(<<97, 116, 116, 114, 115>>) \o <<58, 32>>
               \o <<123>> \o JsonStr(<<115, 114, 99>>) \o <<58, 32>>
               \o JsonStr(node.src) \o <<125, 125>>
    ELSE <<123>> \o JsonStr(<<116, 97, 103>>) \o <<58, 32>>
               \o JsonStr(<<112>>) \o <<44, 32>>
               \o JsonStr(<<99, 104, 105, 108, 100, 114, 101, 110>>) \o <<58, 32>>
               \o <<91>> \o JsonStr(node.text) \o <<93, 125>>

JsonNodes(nodes) ==
    <<91>> \o JoinComma([i \in DOMAIN nodes |-> JsonNode(nodes[i])]) \o <<93>>

\* The call is made once, for a post of any LinkLists and any description:
\* its arguments are in u_exchange, the content it sends in u_result.
DescribeCall(image_links, description) ==
    [image_links |-> image_links, description |-> description]

InitDescribe ==
    /\ current_imgbb_keys = initialize_imgbb_keys(<<K1>>).keys
    /\ current_key_index = initialize_imgbb_keys(<<K1>>).index
    /\ valid_keys = initialize_imgbb_keys(<<K1>>).valid
    /\ failed_keys = initialize_imgbb_keys(<<K1>>).failed
    /\ pending_key_requests = <<>>
    /\ active_listeners = <<>>
    /\ last_post = <<>>
    /\ job = [j \in Jobs |-> IdleJob(0)]
    /\ handlers = EmptyBag
    /\ u_key = ""
    /\ \E image_links \in LinkLists, description \in Descriptions :
          u_exchange = DescribeCall(image_links, description)
    /\ u_result = <<>>

\* edited_url = edit_telegraph_with_description(path, title, img_urls, description)
call_edit_telegraph_with_description ==
    /\ u_result = <<>>
    /\ u_result' = << edit_telegraph_with_description(u_exchange.image_links,
                                                      u_exchange.description) >>
    /\ UNCHANGED << poolvars, pending_key_requests, active_listeners, last_post, job,
                    handlers, u_key, u_exchange >>

NextDescribe == call_edit_telegraph_with_description

SpecDescribe == InitDescribe /\ [][NextDescribe]_vars

\* [image 1, description, image 2, ..., image n] for n >= 2, else the images
DescribedContent(image_links, description) ==
    IF Len(image_links) >= 2
    THEN << ImgNode(image_links[1]), TextNode(description) >>
         \o ImageNodes(Tail(image_links))
    ELSE ImageNodes(image_links)

(***************************************************************************)
(* C23, as the specification states it: for a description that is not      *)
(* empty, the content sent is the JSON text of [image 1, description,      *)
(* image 2, ..., image n] when the post has two images or more, and of the *)
(* image nodes alone when it has fewer.                                    *)
(***************************************************************************)
C23_AsClaimed ==
    (u_result # <<>> /\ u_exchange.description # <<>>)
        => u_result[1] = JsonNodes(DescribedContent(u_exchange.image_links,
                                                    u_exchange.description))

(***************************************************************************)
(* get_current_imgbb_key on its own: successive calls on a pool that no    *)
(* other function changes.  The keys returned are listed in u_result.      *)
(***************************************************************************)
MaxSelections == 3

\* the lists of up to MaxKeys keys, each key of a list either valid or failed;
\* the index is the one initialize_imgbb_keys leaves
SelectPools ==
    { Pool(keys, 0, valid, failed) :
        keys \in UNION { [1..n -> {K1, K2, K3}] : n \in 0..MaxKeys },
        valid \in SUBSET {K1, K2, K3}, failed \in SUBSET {K1, K2, K3} }

InitSelect ==
    /\ \E P \in SelectPools :
          /\ P.valid \cup P.failed = { P.keys[i] : i \in DOMAIN P.keys }
          /\ P.valid \cap P.failed = {}
          /\ current_imgbb_keys = P.keys
          /\ current_key_index = P.index
          /\ valid_keys = P.valid
          /\ failed_keys = P.failed
    /\ pending_key_requests = <<>>
    /\ active_listeners = <<>>
    /\ last_post = <<>>
    /\ job = [j \in Jobs |-> IdleJob(0)]
    /\ handlers = EmptyBag
    /\ u_key = ""
    /\ u_exchange = <<>>
    /\ u_result = <<>>

\* current_key = get_current_imgbb_key()
call_get_current_imgbb_key ==
    /\ Len(u_result) < MaxSelections
    /\ u_result' = Append(u_result, get_current_imgbb_key(ThePool))
    /\ SetPool(get_current_pool(ThePool))
    /\ UNCHANGED << pending_key_requests, active_listeners, last_post, job, handlers,
                    u_key, u_exchange >>

NextSelect == call_get_current_imgbb_key

SpecSelect == InitSelect /\ [][NextSelect]_vars

(***************************************************************************)
(* C24, as the specification states it: the call returns "" exactly when   *)
(* the list is empty; a key that is valid and not failed when there is     *)
(* one; otherwise the n-th call returns the key n - 1 places after the     *)
(* first cursor, wrapping at the end of the list.                          *)
(***************************************************************************)
C24_AsClaimed ==
    \A n \in DOMAIN u_result :
        /\ (u_result[n] = "") <=> (current_imgbb_keys = <<>>)
        /\ available_valid_keys(ThePool) # <<>>
              => u_result[n] \in valid_keys \ failed_keys
        /\ (current_imgbb_keys # <<>> /\ available_valid_keys(ThePool) = <<>>)
              => u_result[n] = current_imgbb_keys[((n - 1) % Len(current_imgbb_keys)) + 1]

(***************************************************************************)
(* C25, as the specification states it: a step in which a request leaves   *)
(* request_new_key leaves in place the listener that another request has   *)
(* registered.                                                             *)
(***************************************************************************)
C25_AsClaimed ==
    [][ \A j1, j2 \in Jobs :
           (/\ j1 # j2
            /\ InRequestNewKey(j1)
            /\ job'[j1].pc \notin {"ask", "wait", "timed_out"})
               => \A c \in OwnListeners(j2) :
                     /\ c \in DOMAIN active_listeners'
                     /\ active_listeners'[c].event = active_listeners[c].event ]_vars

(***************************************************************************)
(* C26, as the specification states it: while a request waits for a key,   *)
(* active_listeners holds, for its chat, the listener with the Event the   *)
(* request waits on.                                                       *)
(***************************************************************************)
C26_AsClaimed ==
    \A j \in Jobs :
        job[j].pc = "wait"
            => /\ job[j].chat_id \in DOMAIN active_listeners
               /\ active_listeners[job[j].chat_id].event = <<j, job[j].gen>>

(***************************************************************************)
(* The requests of two chats that overlap in time on the shared pool: the  *)
(* /ul of chat 2 arrives while the request of chat 1 is in progress.       *)
(***************************************************************************)
NextShared ==
    \/ cmd_ul(1, 1)
    \/ job[1].pc # "idle" /\ cmd_ul(2, 2)
    \/ \E j \in Jobs : JobStep(j, OneImage, TelegraphWorks)
    \/ \E chat_id \in Chats : \E words \in ReplyTexts :
          handle_text_messages(chat_id, words)
    \/ HandlerStep

SpecShared == Init /\ [][NextShared]_vars

(***************************************************************************)
(* C27, as the specification states it: a key in failed_keys leaves it     *)
(* only in a step in which that key is supplied again, that is, appended   *)
(* to current_imgbb_keys; no step of a request that took the key while it  *)
(* was valid moves it back.                                                *)
(***************************************************************************)
C27_AsClaimed ==
    [][ \A key \in failed_keys :
           key \notin failed_keys'
              => /\ Len(current_imgbb_keys') = Len(current_imgbb_keys) + 1
                 /\ current_imgbb_keys'[Len(current_imgbb_keys')] = key ]_vars

(***************************************************************************)
(* C28.  When the loop of a request has run to the end of its batch, every *)
(* item of the batch has exactly one entry in links and errors together,   *)
(* so Len(links) + Len(errors) = total, whatever the number of keys the    *)
(* host rejected on the way; an item whose upload met a key rejection is   *)
(* in links when its last upload succeeded and in errors when it did not.  *)
(***************************************************************************)
C28_EveryItemOnce ==
    \A j \in Jobs :
        job[j].ended = "completed"
            => LET L == job[j]
                   InLinks(i) == { p \in DOMAIN L.links :
                                     L.links[p].name = L.image_sources[i].name }
                   InErrors(i) == { p \in DOMAIN L.errors :
                                      L.errors[p].name = L.image_sources[i].name }
                   UploadsOf(i) == SelectSeq(L.log,
                                      LAMBDA e : e.kind = "upload" /\ e.i = i - 1)
               IN
               /\ Len(L.links) + Len(L.errors) = Len(L.image_sources)
               /\ \A i \in DOMAIN L.image_sources :
                     /\ Cardinality(InLinks(i)) + Cardinality(InErrors(i)) = 1
                     /\ (\E p \in DOMAIN UploadsOf(i) : UploadsOf(i)[p].res = "key")
                           => /\ UploadsOf(i)[Len(UploadsOf(i))].res \in {"ok", "err"}
                              /\ (UploadsOf(i)[Len(UploadsOf(i))].res = "ok")
                                    <=> (InLinks(i) # {})

\* a batch of two items ran to its end through two key rejections, with one
\* link and one error
C28_Witness ==
    \E j \in Jobs :
        /\ job[j].ended = "completed"
        /\ Len(job[j].image_sources) = 2
        /\ Suspensions(j) = 2
        /\ Len(job[j].links) = 1
        /\ Len(job[j].errors) = 1

(***************************************************************************)
(* C29.  valid_keys and failed_keys are disjoint, and every key of         *)
(* current_imgbb_keys is in one of them (hence in exactly one).            *)
(***************************************************************************)
C29_ValidFailedPartition ==
    /\ valid_keys \cap failed_keys = {}
    /\ \A i \in DOMAIN current_imgbb_keys :
          current_imgbb_keys[i] \in valid_keys \cup failed_keys

\* two requests share the pool; a key has been marked failed, a supplied key
\* is valid and a request goes on uploading
C29_Witness ==
    /\ failed_keys # {}
    /\ K3 \in valid_keys
    /\ \E j \in Jobs : job[j].pc = "loop" /\ job[j].current_key \in failed_keys

(***************************************************************************)
(* One request on a batch of one or two images, with the replies and the   *)
(* /reset of its requester.  The event loop runs a request that is ready:  *)
(* an upload call returns, a timer fires, a request whose Event is set     *)
(* wakes.                                                                  *)
(***************************************************************************)
\* "a"; "c" (the host answers 500) and "a", out of order
LiveArchives ==
    { << [name |-> <<97>>, payload |-> "jpeg"] >>,
      << [name |-> <<99>>, payload |-> "toobig"], [name |-> <<97>>, payload |-> "jpeg"] >> }

NextLive ==
    \/ cmd_ul(1, 1)
    \/ JobStep(1, LiveArchives, TelegraphWorks)
    \/ \E words \in ReplyTexts : handle_text_messages(1, words)
    \/ reset_state(1)
    \/ HandlerStep

SpecLive ==
    Init /\ [][NextLive]_vars /\ WF_vars(JobStep(1, LiveArchives, TelegraphWorks))

(***************************************************************************)
(* C30, as the specification states it: every request that has started     *)
(* eventually ends (done, after the end of the batch, a /cancel or a       *)
(* timeout).                                                               *)
(***************************************************************************)
C30_AsClaimed ==
    \A j \in Jobs : (job[j].pc # "idle") ~> (job[j].pc = "done")

(***************************************************************************)
(* C30, amended.  Every request that has started and that is at the prompt *)
(* of request_new_key only finitely many times eventually ends.            *)
(***************************************************************************)
C30_EndsUnlessAskedForever ==
    \A j \in Jobs :
        <>[](job[j].pc # "ask") => ((job[j].pc # "idle") ~> (job[j].pc = "done"))

\* a request has ended at the end of its batch after one solicitation that a
\* key answered
C30_Witness ==
    \E j \in Jobs :
        /\ job[j].pc = "done"
        /\ job[j].ended = "completed"
        /\ Suspensions(j) = 1
        /\ \E p \in DOMAIN job[j].log : job[j].log[p].kind = "newkey"

====
